---- MODULE Spec2Model ----
(***************************************************************************)
(* Model of src/app.py, the Koyal AI Nutrition Advisor Streamlit script.   *)
(*                                                                         *)
(* The script is re-executed from its first line on every interaction      *)
(* ("script run").  One run reads the widget values, passes the credential *)
(* gate, builds the model client and the embedding function, obtains the   *)
(* FAISS index through st.cache_resource, builds the retriever and the     *)
(* document chain and, when the button was pressed, validates the inputs,  *)
(* retrieves, generates and displays.                                      *)
(*                                                                         *)
(* Script-local names (model, embedding, vectorstore, retriever, query,    *)
(* retrieved_docs, response) live for one run only.  The only state that   *)
(* survives a run is the st.cache_resource entry of load_vectorstore.      *)
(* Calls into external libraries and services (ChatGroq, HuggingFace,      *)
(* FAISS.load_local, retriever.invoke, document_chain.invoke) may return   *)
(* or raise; the model takes both outcomes.                                *)
(***************************************************************************)
EXTENDS Integers, Sequences, FiniteSets, TLC

\* ------------------------------------------------------------------ bounds
\* longest condition / allergies text entered
MaxLen == 2
\* largest number of documents one retrieval call returns
MaxDocs == 2

\* ------------------------------------------------------- input alphabets
\* characters of the two free-text fields; " " is a non-empty, truthy text
Chars == {"a", " "}
\* non-empty credential values the operator may type
Keys == {"k1", "k2"}
\* identifiers of the text chunks stored in the persisted index
DocIds == {"d1", "d2"}

SeqsUpTo(S, n) == UNION {[1..k -> S] : k \in 0..n}

Texts == SeqsUpTo(Chars, MaxLen)
DocSeqs == SeqsUpTo(DocIds, MaxDocs)

\* Python None, the value load_vectorstore returns when the load failed
None == "None"

\* A script-local name is unbound until its assignment runs: << >> is the
\* unbound name and <<v>> the name bound to v.
Unbound == << >>
Bound(v) == <<v>>
IsBound(x) == Len(x) = 1
Val(x) == x[1]

VARIABLES
    pc,              \* position of the script run ("idle": no run in progress)
    groq_api_key,    \* value of the sidebar text_input in this run
    condition,       \* value of the condition text_input in this run
    allergies,       \* value of the allergies text_input in this run
    button,          \* value st.button returns in this run
    model,           \* ChatGroq client of this run, named by the key it holds
    embedding,       \* HuggingFaceEmbeddings object of this run
    cache,           \* st.cache_resource entry of load_vectorstore, process wide
    vectorstore,     \* script-local result of load_vectorstore()
    retriever,       \* script-local retriever, named by the store it searches
    document_chain,  \* script-local chain, named by the llm it calls
    query,           \* script-local query string
    retrieved_docs,  \* script-local result of retriever.invoke
    request,         \* argument handed to document_chain.invoke
    response,        \* script-local generation result
    messages,        \* user-facing elements emitted by this run
    loadsInRun,      \* FAISS.load_local calls made by this run
    retrieverCalls,  \* retriever.invoke calls made by this run
    searched,        \* argument of the retriever.invoke call of this run
    chainCalls,      \* document_chain.invoke calls made by this run
    chainAuth,       \* credentials the generation calls of this run were sent with
    loadCalls,       \* FAISS.load_local calls made by the process
    modelFailed,     \* some run of the process failed to construct ChatGroq
    requestFailed,   \* some run of the process had a failed retrieval/generation
    keysSeen         \* credentials with which earlier runs passed the gate

inputVars == <<groq_api_key, condition, allergies, button>>
localVars == <<model, embedding, vectorstore, retriever, document_chain, query,
               retrieved_docs, request, response>>
callVars == <<loadsInRun, retrieverCalls, searched, chainCalls, chainAuth>>
procVars == <<cache, loadCalls>>
histVars == <<modelFailed, requestFailed, keysSeen>>
vars == <<pc, inputVars, localVars, callVars, messages, procVars, histVars>>

\* ------------------------------------------------- decisions of the script
\* a gate that tests for None, which st.text_input never returns
CredentialIsNone(key) == key = None

\* line 125: `if not groq_api_key`
CredentialMissing(key) == key = ""

\* a client built from a fixed key instead of the key entered in this run
ChatGroqFixedKey(key) == "k1"

\* lines 132-135: ChatGroq(model=..., groq_api_key=groq_api_key)
ChatGroq(key) == key

\* a cache that keeps no entry for a None result
CacheHitUnlessNone(entry) == IsBound(entry) /\ Val(entry) # None

\* line 143: st.cache_resource finds an entry for load_vectorstore(); the
\* entry holds whatever the function returned, None included
CacheHit(entry) == IsBound(entry)

\* a check that never fires
VectorstoreNeverMissing(vs) == FALSE

\* line 157: `if vectorstore is None`
VectorstoreMissing(vs) == vs = None

\* `and` in place of `or`
InputsBothMissing(c, a) == Len(c) = 0 /\ Len(a) = 0

\* line 214: `if not condition or not allergies`
InputsMissing(c, a) == Len(c) = 0 \/ Len(a) = 0

\* the two texts joined without the space
QueryNoSpace(c, a) == c \o a

\* line 218: f"{condition} {allergies}"
Query(c, a) == c \o <<" ">> \o a

\* lines 225-229: the dict handed to document_chain.invoke
ChainInput(c, a, docs) == [condition |-> c, allergies |-> a, context |-> docs]

\* ---------------------------------------------------------------- Init
\* The process has started and no script run has happened yet.
Init ==
    /\ pc = "idle"
    /\ groq_api_key = "" /\ condition = << >> /\ allergies = << >>
    /\ button = FALSE
    /\ model = Unbound /\ embedding = Unbound /\ vectorstore = Unbound
    /\ retriever = Unbound /\ document_chain = Unbound /\ query = Unbound
    /\ retrieved_docs = Unbound /\ request = Unbound /\ response = Unbound
    /\ messages = {}
    /\ loadsInRun = 0 /\ retrieverCalls = 0 /\ searched = Unbound
    /\ chainCalls = 0 /\ chainAuth = {}
    /\ cache = Unbound /\ loadCalls = 0
    /\ modelFailed = FALSE /\ requestFailed = FALSE /\ keysSeen = {}

\* --------------------------------------------------------------- actions
\* An interaction starts a script run: a fresh namespace, a cleared page, and
\* the values the widgets return in this run (lines 1-123; the key is read at
\* line 101, the two texts at lines 189 and 203, the button at line 213).
StartRun ==
    /\ pc = "idle"
    /\ \E k \in Keys \cup {""}, c \in Texts, a \in Texts, b \in BOOLEAN :
          /\ groq_api_key' = k
          /\ condition' = c
          /\ allergies' = a
          /\ button' = b
    /\ messages' = {}
    /\ loadsInRun' = 0 /\ retrieverCalls' = 0 /\ searched' = Unbound
    /\ chainCalls' = 0 /\ chainAuth' = {}
    /\ pc' = "gate"
    /\ UNCHANGED <<localVars, procVars, histVars>>

\* lines 125-128: the credential gate
CredentialGate ==
    /\ pc = "gate"
    /\ IF CredentialMissing(groq_api_key)
       THEN /\ messages' = messages \cup {"missing_credential"}
            /\ pc' = "stopped"
       ELSE /\ pc' = "model"
            /\ UNCHANGED messages
    /\ UNCHANGED <<inputVars, localVars, callVars, procVars, histVars>>

\* a construction failure that is reported but does not stop the run
LoadModelNoStop ==
    /\ pc = "model"
    /\ \E ok \in BOOLEAN :
          IF ok
          THEN /\ model' = Bound(ChatGroq(groq_api_key))
               /\ UNCHANGED <<messages, modelFailed>>
          ELSE /\ messages' = messages \cup {"model_error"}
               /\ modelFailed' = TRUE
               /\ model' = Bound(None)
    /\ pc' = "embedding"
    /\ UNCHANGED <<inputVars, embedding, vectorstore, retriever, document_chain,
                   query, retrieved_docs, request, response, callVars,
                   procVars, requestFailed, keysSeen>>

\* lines 131-138: ChatGroq construction; an exception is reported and stops the run
LoadModel ==
    /\ pc = "model"
    /\ \E ok \in BOOLEAN :
          IF ok
          THEN /\ model' = Bound(ChatGroq(groq_api_key))
               /\ pc' = "embedding"
               /\ UNCHANGED <<messages, modelFailed>>
          ELSE /\ messages' = messages \cup {"model_error"}
               /\ modelFailed' = TRUE
               /\ pc' = "stopped"
               /\ UNCHANGED model
    /\ UNCHANGED <<inputVars, embedding, vectorstore, retriever, document_chain,
                   query, retrieved_docs, request, response, callVars,
                   procVars, requestFailed, keysSeen>>

\* line 140: HuggingFaceEmbeddings construction, outside any try: an exception
\* ends the run and Streamlit renders it
LoadEmbeddings ==
    /\ pc = "embedding"
    /\ \E ok \in BOOLEAN :
          IF ok
          THEN /\ embedding' = Bound("embedding")
               /\ pc' = "load"
               /\ UNCHANGED messages
          ELSE /\ messages' = messages \cup {"exception"}
               /\ pc' = "raised"
               /\ UNCHANGED embedding
    /\ UNCHANGED <<inputVars, model, vectorstore, retriever, document_chain,
                   query, retrieved_docs, request, response, callVars,
                   procVars, histVars>>

\* lines 143-156: load_vectorstore() under st.cache_resource.  On a miss the
\* body runs: FAISS.load_local returns the store, or raises and the body
\* reports the error and returns None; either value is stored.  On a hit the
\* stored value is returned and the stored st.error element is replayed.
LoadVectorstore ==
    /\ pc = "load"
    /\ IF CacheHit(cache)
       THEN /\ vectorstore' = Bound(Val(cache))
            /\ messages' = IF Val(cache) = None
                           THEN messages \cup {"index_error"} ELSE messages
            /\ UNCHANGED <<procVars, loadsInRun>>
       ELSE \E ok \in BOOLEAN :
            /\ loadCalls' = loadCalls + 1
            /\ loadsInRun' = loadsInRun + 1
            /\ cache' = Bound(IF ok THEN "faiss_index" ELSE None)
            /\ vectorstore' = cache'
            /\ messages' = IF ok THEN messages ELSE messages \cup {"index_error"}
    /\ pc' = "check"
    /\ UNCHANGED <<inputVars, model, embedding, retriever, document_chain, query,
                   retrieved_docs, request, response, retrieverCalls, searched,
                   chainCalls, chainAuth, histVars>>

\* lines 157-208: stop when the store is None; otherwise build the retriever,
\* the prompt and the document chain and render the two text inputs
BuildChain ==
    /\ pc = "check"
    /\ IF VectorstoreMissing(Val(vectorstore))
       THEN /\ pc' = "stopped"
            /\ UNCHANGED <<retriever, document_chain>>
       ELSE /\ retriever' = Bound(Val(vectorstore))
            /\ document_chain' = Bound(Val(model))
            /\ pc' = "button"
    /\ UNCHANGED <<inputVars, model, embedding, vectorstore, query,
                   retrieved_docs, request, response, callVars, messages,
                   procVars, histVars>>

\* line 213: st.button
Button ==
    /\ pc = "button"
    /\ pc' = IF button THEN "validate" ELSE "footer"
    /\ UNCHANGED <<inputVars, localVars, callVars, messages, procVars, histVars>>

\* lines 214-218: input validation, then the query
Validate ==
    /\ pc = "validate"
    /\ IF InputsMissing(condition, allergies)
       THEN /\ messages' = messages \cup {"warning"}
            /\ pc' = "stopped"
            /\ UNCHANGED query
       ELSE /\ query' = Bound(Query(condition, allergies))
            /\ pc' = "retrieve"
            /\ UNCHANGED messages
    /\ UNCHANGED <<inputVars, model, embedding, vectorstore, retriever,
                   document_chain, retrieved_docs, request, response, callVars,
                   procVars, histVars>>

\* a retrieval failure that is reported and then treated as "no documents"
RetrieveSwallowed ==
    /\ pc = "retrieve"
    /\ retrieverCalls' = retrieverCalls + 1
    /\ searched' = Bound(Val(query))
    /\ \/ \E docs \in DocSeqs :
             /\ retrieved_docs' = Bound(docs)
             /\ UNCHANGED <<messages, requestFailed>>
       \/ /\ messages' = messages \cup {"exception"}
          /\ requestFailed' = TRUE
          /\ retrieved_docs' = Bound(<< >>)
    /\ pc' = "generate"
    /\ UNCHANGED <<inputVars, model, embedding, vectorstore, retriever,
                   document_chain, query, request, response, loadsInRun,
                   chainCalls, chainAuth, procVars, modelFailed, keysSeen>>

\* lines 221-222: retriever.invoke(query); an exception ends the run and
\* Streamlit renders it
Retrieve ==
    /\ pc = "retrieve"
    /\ retrieverCalls' = retrieverCalls + 1
    /\ searched' = Bound(Val(query))
    /\ \/ \E docs \in DocSeqs :
             /\ retrieved_docs' = Bound(docs)
             /\ pc' = "generate"
             /\ UNCHANGED <<messages, requestFailed>>
       \/ /\ messages' = messages \cup {"exception"}
          /\ requestFailed' = TRUE
          /\ pc' = "raised"
          /\ UNCHANGED retrieved_docs
    /\ UNCHANGED <<inputVars, model, embedding, vectorstore, retriever,
                   document_chain, query, request, response, loadsInRun,
                   chainCalls, chainAuth, procVars, modelFailed, keysSeen>>

\* a generation failure that is reported and then rendered as a result
GenerateSwallowed ==
    /\ pc = "generate"
    /\ chainCalls' = chainCalls + 1
    /\ chainAuth' = chainAuth \cup {Val(document_chain)}
    /\ request' = Bound(ChainInput(condition, allergies, Val(retrieved_docs)))
    /\ \/ /\ response' = Bound("text")
          /\ UNCHANGED <<messages, requestFailed>>
       \/ /\ messages' = messages \cup {"exception"}
          /\ requestFailed' = TRUE
          /\ UNCHANGED response
    /\ pc' = "display"
    /\ UNCHANGED <<inputVars, model, embedding, vectorstore, retriever,
                   document_chain, query, retrieved_docs, loadsInRun,
                   retrieverCalls, searched, procVars, modelFailed, keysSeen>>

\* a generation failure that is answered by calling the service again
GenerateRetry ==
    /\ pc = "generate"
    /\ chainCalls' = chainCalls + 1
    /\ chainAuth' = chainAuth \cup {Val(document_chain)}
    /\ request' = Bound(ChainInput(condition, allergies, Val(retrieved_docs)))
    /\ \/ /\ response' = Bound("text")
          /\ pc' = "display"
          /\ UNCHANGED requestFailed
       \/ /\ requestFailed' = TRUE
          /\ pc' = "generate"
          /\ UNCHANGED response
    /\ UNCHANGED <<inputVars, model, embedding, vectorstore, retriever,
                   document_chain, query, retrieved_docs, loadsInRun,
                   retrieverCalls, searched, messages, procVars, modelFailed,
                   keysSeen>>

\* lines 224-229: document_chain.invoke({...}); one call to the generation
\* service with the key of the chain's llm; an exception ends the run
Generate ==
    /\ pc = "generate"
    /\ chainCalls' = chainCalls + 1
    /\ chainAuth' = chainAuth \cup {Val(document_chain)}
    /\ request' = Bound(ChainInput(condition, allergies, Val(retrieved_docs)))
    /\ \/ /\ response' = Bound("text")
          /\ pc' = "display"
          /\ UNCHANGED <<messages, requestFailed>>
       \/ /\ messages' = messages \cup {"exception"}
          /\ requestFailed' = TRUE
          /\ pc' = "raised"
          /\ UNCHANGED response
    /\ UNCHANGED <<inputVars, model, embedding, vectorstore, retriever,
                   document_chain, query, retrieved_docs, loadsInRun,
                   retrieverCalls, searched, procVars, modelFailed, keysSeen>>

\* lines 232-249: the result is rendered
Display ==
    /\ pc = "display"
    /\ messages' = messages \cup {"recommendations"}
    /\ pc' = "footer"
    /\ UNCHANGED <<inputVars, localVars, callVars, procVars, histVars>>

\* lines 251-257, or the script runner catching st.stop() or an exception:
\* the run is over, its names are discarded, the page stays as rendered and
\* waits for the next interaction
EndRun ==
    /\ pc \in {"footer", "stopped", "raised"}
    /\ pc' = "idle"
    /\ groq_api_key' = "" /\ condition' = << >> /\ allergies' = << >>
    /\ button' = FALSE
    /\ model' = Unbound /\ embedding' = Unbound /\ vectorstore' = Unbound
    /\ retriever' = Unbound /\ document_chain' = Unbound /\ query' = Unbound
    /\ retrieved_docs' = Unbound /\ request' = Unbound /\ response' = Unbound
    /\ keysSeen' = IF IsBound(model) THEN keysSeen \cup {groq_api_key} ELSE keysSeen
    /\ searched' = Unbound /\ chainAuth' = {}
    /\ UNCHANGED <<loadsInRun, retrieverCalls, chainCalls, messages, procVars,
                   modelFailed, requestFailed>>

\* The submission state machine read off the position of the run: the handler
\* of line 213 is entered at "validate"; st.stop() after the warning and an
\* exception out of the two calls end the submission as failed.
Phase ==
    CASE pc = "validate" -> "Validating-Inputs"
      [] pc = "retrieve" -> "Retrieving"
      [] pc = "generate" -> "Generating"
      [] pc = "display" -> "Displaying"
      [] pc = "stopped" /\ "warning" \in messages -> "Failed"
      [] pc = "raised" /\ retrieverCalls > 0 -> "Failed"
      [] OTHER -> "Idle"

Next ==
    \/ StartRun
    \/ CredentialGate
    \/ LoadModel
    \/ LoadEmbeddings
    \/ LoadVectorstore
    \/ BuildChain
    \/ Button
    \/ Validate
    \/ Retrieve
    \/ Generate
    \/ Display
    \/ EndRun

Spec == Init /\ [][Next]_vars

TypeOK ==
    /\ pc \in {"idle", "gate", "model", "embedding", "load", "check", "button",
               "validate", "retrieve", "generate", "display", "footer",
               "stopped", "raised"}
    /\ groq_api_key \in Keys \cup {""}
    /\ condition \in Texts /\ allergies \in Texts /\ button \in BOOLEAN
    /\ loadCalls \in Nat /\ retrieverCalls \in Nat /\ chainCalls \in Nat

\* ------------------------------------------------------------ properties
ValidInputs == Len(condition) > 0 /\ Len(allergies) > 0

\* C1: in every script run whose credential string is empty the run halts at
\* the credential gate: no model client is constructed, no index load is
\* attempted and no retrieval or generation call is made in that run,
\* whatever condition, allergies and the submit trigger are.
C1_EmptyCredentialHalts ==
    (pc # "idle" /\ groq_api_key = "") =>
        /\ pc \in {"gate", "stopped"}
        /\ pc = "stopped" => "missing_credential" \in messages
        /\ model = Unbound /\ embedding = Unbound
        /\ vectorstore = Unbound /\ loadsInRun = 0
        /\ retriever = Unbound /\ document_chain = Unbound
        /\ retrieverCalls = 0 /\ chainCalls = 0 /\ request = Unbound

C1_Witness ==
    /\ pc = "stopped" /\ groq_api_key = ""
    /\ button /\ ValidInputs
    /\ "missing_credential" \in messages
    /\ cache = Bound("faiss_index")

\* C2: in every submission (button pressed, credential non-empty, index
\* loaded) whose condition or allergies text is empty, a warning is issued
\* and neither the retrieval call nor the generation call is made in that run.
C2_EmptyInputBlocksSubmission ==
    (pc # "idle" /\ button /\ IsBound(retriever) /\ ~ValidInputs) =>
        /\ pc \in {"button", "validate", "stopped"}
        /\ pc = "stopped" => "warning" \in messages
        /\ retrieverCalls = 0 /\ chainCalls = 0
        /\ query = Unbound /\ request = Unbound /\ response = Unbound
        /\ "recommendations" \notin messages

C2_Witness ==
    /\ pc = "stopped" /\ button /\ IsBound(retriever)
    /\ Len(condition) > 0 /\ Len(allergies) = 0
    /\ "warning" \in messages

\* C3 as claimed: the index is deserialized exactly once, and the first run
\* that passes the credential gate and model construction performs the load
\* (so once a run that constructed the model client is over, the load has
\* been made).
C3_Original ==
    /\ loadCalls <= 1
    /\ keysSeen # {} => loadCalls = 1

\* C3 as amended: the index is deserialized at most once per process; the
\* first run that passes the credential gate, model construction and the
\* embedding construction performs the load, and every later run reuses the
\* cached result, a None from a failed load included, without calling the
\* deserializer again.
C3_LoadedOnce ==
    /\ [](/\ loadCalls <= 1
          /\ IsBound(cache) <=> loadCalls = 1
          /\ IsBound(vectorstore) => (loadCalls = 1 /\ vectorstore = cache))
    /\ [][/\ pc = "load" => (loadCalls' = 1 /\ IsBound(cache'))
          /\ IsBound(cache) => (cache' = cache /\ loadCalls' = loadCalls
                                /\ loadsInRun' <= loadsInRun)]_vars

C3_Witness ==
    /\ pc = "check" /\ loadCalls = 1 /\ loadsInRun = 0
    /\ vectorstore = Bound(None)

\* C4: when the retrieval or the generation call of a submission fails, only
\* that submission is aborted: the error is reported, the cached index and
\* the process-wide state are unchanged, and a following submission with
\* valid inputs runs its own retrieval and generation and can complete.
C4_RequestErrorScoped ==
    /\ []("exception" \in messages =>
             /\ pc \in {"raised", "idle"}
             /\ response = Unbound
             /\ "recommendations" \notin messages)
    /\ []((pc = "raised" /\ retrieverCalls > 0) =>
             /\ "exception" \in messages
             /\ cache = Bound("faiss_index")
             /\ chainCalls = 0 <=> retrieved_docs = Unbound)
    /\ []((requestFailed /\ pc = "display") =>
             /\ retrieverCalls = 1 /\ chainCalls = 1
             /\ IsBound(retrieved_docs) /\ IsBound(response)
             /\ "exception" \notin messages)
    /\ [][/\ pc \in {"retrieve", "generate", "raised"} => cache' = cache
          /\ pc \in {"retrieve", "generate", "raised"} => loadCalls' = loadCalls
          /\ pc \in {"retrieve", "generate", "raised"} => modelFailed' = modelFailed
          /\ pc \in {"retrieve", "generate", "raised"} => keysSeen \subseteq keysSeen']_vars
    /\ [][pc = "raised" => pc' = "idle"]_vars

C4_Witness ==
    /\ requestFailed /\ pc = "footer"
    /\ "recommendations" \in messages
    /\ retrieverCalls = 1 /\ chainCalls = 1

\* C5: if deserializing the index fails, the error is reported and the run
\* halts; in that run and in every later run of the process no retriever is
\* built and no retrieval or generation call is made.
C5_LoadFailureFatal ==
    /\ [](cache = Bound(None) =>
             /\ retriever = Unbound /\ document_chain = Unbound
             /\ retrieverCalls = 0 /\ chainCalls = 0
             /\ pc \in {"idle", "gate", "model", "embedding", "load", "check",
                       "stopped", "raised"}
             /\ IsBound(vectorstore) => vectorstore = Bound(None)
             /\ loadsInRun = 1 /\ pc # "idle" => "index_error" \in messages)
    /\ [][cache = Bound(None) => cache' = Bound(None)]_vars

C5_Witness ==
    /\ pc = "stopped" /\ vectorstore = Bound(None)
    /\ loadsInRun = 0 /\ loadCalls = 1
    /\ button /\ ValidInputs
    /\ "index_error" \in messages

\* C6 as claimed: once constructing the model client has failed in some run,
\* no retrieval or generation call is made in that run or in any later run
\* of the process.
C6_Original ==
    modelFailed => (retrieverCalls = 0 /\ chainCalls = 0)

\* C6 as amended: a model-client construction failure is fatal for the run
\* in which it occurs: the error is reported, the run stops, and no index
\* load, retrieval or generation call is made in that run.  A later run
\* constructs the client again and can serve requests.
C6_ModelFailureStopsRun ==
    "model_error" \in messages =>
        /\ pc \in {"stopped", "idle"}
        /\ modelFailed
        /\ model = Unbound /\ embedding = Unbound /\ vectorstore = Unbound
        /\ retriever = Unbound /\ document_chain = Unbound
        /\ loadsInRun = 0 /\ retrieverCalls = 0 /\ chainCalls = 0
        /\ request = Unbound /\ "recommendations" \notin messages

C6_Witness ==
    /\ pc = "stopped" /\ "model_error" \in messages
    /\ button /\ ValidInputs
    /\ cache = Bound("faiss_index")

\* C7: each submission follows Idle -> Validating-Inputs -> Retrieving ->
\* Generating -> Displaying: generation is called only after the retrieval of
\* the same submission returned, the result is displayed only after the
\* generation returned, Failed is entered only from Validating-Inputs,
\* Retrieving or Generating, and after Displaying or Failed the next step
\* leads back to Idle, from where a new submission is accepted.
C7_Transitions ==
    {<<"Idle", "Validating-Inputs">>,
     <<"Validating-Inputs", "Retrieving">>, <<"Validating-Inputs", "Failed">>,
     <<"Retrieving", "Generating">>, <<"Retrieving", "Failed">>,
     <<"Generating", "Displaying">>, <<"Generating", "Failed">>,
     <<"Displaying", "Idle">>, <<"Failed", "Idle">>,
     <<"Idle", "Idle">>}

C7_Step == <<Phase, Phase'>> \in C7_Transitions

C7_SubmissionStateMachine ==
    /\ [](/\ Phase = "Validating-Inputs" => (button /\ retrieverCalls = 0 /\ chainCalls = 0)
          /\ Phase = "Retrieving" => (ValidInputs /\ retrieverCalls = 0 /\ chainCalls = 0)
          /\ Phase = "Generating" =>
                (IsBound(retrieved_docs) /\ retrieverCalls = 1 /\ chainCalls = 0
                 /\ "exception" \notin messages)
          /\ Phase = "Displaying" =>
                (IsBound(response) /\ IsBound(retrieved_docs) /\ chainCalls = 1
                 /\ "exception" \notin messages)
          /\ "recommendations" \in messages =>
                (chainCalls = 1 /\ retrieverCalls = 1 /\ "exception" \notin messages)
          /\ Phase \in {"Displaying", "Failed"} => ENABLED (Display \/ EndRun)
          /\ pc = "idle" => ENABLED StartRun)
    /\ [][C7_Step]_vars

C7_Witness ==
    /\ Phase = "Displaying" /\ requestFailed
    /\ Len(Val(retrieved_docs)) = 2

\* C8: for every submission that reaches generation, the request handed to
\* the generation chain carries the condition string, the allergies string
\* and exactly the documents the retrieval call of the same submission
\* returned, in order; the retrieval was called with the condition and the
\* allergies text joined by a single space.
C8_RequestCarriesInputs ==
    IsBound(request) =>
        /\ Val(request).condition = condition
        /\ Val(request).allergies = allergies
        /\ IsBound(retrieved_docs)
        /\ Val(request).context = Val(retrieved_docs)
        /\ IsBound(searched)
        /\ Len(Val(searched)) = Len(condition) + 1 + Len(allergies)
        /\ SubSeq(Val(searched), 1, Len(condition)) = condition
        /\ Val(searched)[Len(condition) + 1] = " "
        /\ SubSeq(Val(searched), Len(condition) + 2, Len(Val(searched))) = allergies

C8_Witness ==
    /\ IsBound(request) /\ pc = "display"
    /\ Len(Val(request).context) = 2
    /\ Val(request).context[1] # Val(request).context[2]
    /\ condition # allergies

\* C9: each submission makes at most one retrieval call and at most one
\* generation call, and no error triggers a retry: after a failed call no
\* retrieval or generation call is made until a new run with the submit
\* trigger; runs without the submit trigger make no such call.
C9_NoRetry ==
    /\ [](/\ retrieverCalls <= 1 /\ chainCalls <= 1
          /\ chainCalls <= retrieverCalls
          /\ (pc # "idle" /\ ~button) => (retrieverCalls = 0 /\ chainCalls = 0))
    /\ [][/\ (requestFailed' /\ ~requestFailed) => pc' = "raised"
          /\ pc = "raised" =>
                (retrieverCalls' <= retrieverCalls /\ chainCalls' <= chainCalls)
          /\ (retrieverCalls' > retrieverCalls \/ chainCalls' > chainCalls) =>
                (button /\ "exception" \notin messages)]_vars

C9_Witness ==
    /\ pc = "raised" /\ retrieverCalls = 1 /\ chainCalls = 1
    /\ "exception" \in messages

\* C10: the model client is rebuilt in every run from the credential entered
\* in that run and the cached index does not depend on the credential: the
\* generation call of a submission is sent with the credential of that
\* submission's run, never an earlier one, and a changed credential never
\* causes the index to be loaded again or replaced.
C10_CredentialPerRun ==
    /\ [](/\ IsBound(model) => model = Bound(groq_api_key)
          /\ IsBound(document_chain) => document_chain = Bound(groq_api_key)
          /\ chainAuth \subseteq {groq_api_key}
          /\ chainCalls > 0 /\ pc # "idle" => chainAuth = {groq_api_key})
    /\ [][(IsBound(cache) /\ groq_api_key' # groq_api_key) =>
             (cache' = cache /\ loadCalls' = loadCalls)]_vars
    /\ [][(pc = "load" /\ keysSeen \ {groq_api_key} # {} /\ IsBound(cache)) =>
             (vectorstore' = cache /\ loadsInRun' = 0)]_vars

C10_Witness ==
    /\ pc = "display" /\ chainAuth = {groq_api_key}
    /\ keysSeen \ {groq_api_key} # {}
    /\ loadsInRun = 0 /\ loadCalls = 1

====
